---- MODULE Spec2Model ----
(***************************************************************************)
(* Key parameter builders, validation and key generation of               *)
(* src/composed/key/builder.rs: SecretKeyParamsBuilder, SubkeyParams-      *)
(* Builder, SecretKeyParams::generate_with_rng and KeyType::generate.      *)
(*                                                                         *)
(* Pass-through data that no operation of the file inspects (preference    *)
(* lists, revocation key, additional user ids, user attributes, packet     *)
(* and key version tags) is left out of the records.                       *)
(***************************************************************************)
EXTENDS Integers, Sequences, FiniteSets, TLC

VARIABLES
    builder,    \* the SecretKeyParamsBuilder: every field an Option
    phase,      \* "building" | "built" | "rejected" | "generated" | "generated2"
    params,     \* Result of SecretKeyParamsBuilder::build (NoneV before build)
    run,        \* outcome of the first generate call (NoneV before it)
    run2,       \* outcome of a second generate call on the same parameters
    declared,   \* history: the values passed to subkey(), in call order
    sub_builders, \* history: the SubkeyParamsBuilder each of them was built from
    seen        \* history: the verdicts validate would have given after each setter

vars == <<builder, phase, params, run, run2, declared, sub_builders, seen>>

-----------------------------------------------------------------------------
(* Option and Result values *)

NoneV == [some |-> FALSE]
Some(x) == [some |-> TRUE, v |-> x]
UnwrapOr(o, d) == IF o.some THEN o.v ELSE d

Ok(x) == [ok |-> TRUE, v |-> x]
Err(e) == [ok |-> FALSE, err |-> e]

-----------------------------------------------------------------------------
(* KeyType, DsaKeySize, ECCCurve *)

Rsa(bits) == [tag |-> "Rsa", bits |-> bits]
ECDH(curve) == [tag |-> "ECDH", curve |-> curve]
EdDSALegacy == [tag |-> "EdDSALegacy"]
ECDSA(curve) == [tag |-> "ECDSA", curve |-> curve]
Dsa(size) == [tag |-> "Dsa", size |-> size]

DsaKeySize == {1024, 2048, 3072}

\* The curves the file names: the four of the ECDSA arm and Curve25519.
\* Ed25519 stands for the rest of the enumeration (the `_` arm).
ECCCurve == {"P256", "P384", "P521", "Secp256k1", "Curve25519", "Ed25519"}

\* Bit sizes tried for Rsa(u32): around 2048, the least u32 and a large one
\* (2^31 - 1; the comparison with 2048 is the only use of the number).
RsaBits == {0, 1, 1024, 2047, 2048, 2049, 4096, 2147483647}

KeyType ==
    {Rsa(b) : b \in RsaBits} \cup {ECDH(c) : c \in ECCCurve} \cup {EdDSALegacy}
        \cup {ECDSA(c) : c \in ECCCurve} \cup {Dsa(s) : s \in DsaKeySize}

to_alg(kt) == kt.tag

-----------------------------------------------------------------------------
(* SecretKeyParamsBuilder *)

BuilderDefault ==
    [key_type |-> NoneV, can_sign |-> NoneV, can_certify |-> NoneV,
     can_encrypt |-> NoneV, primary_user_id |-> NoneV, passphrase |-> NoneV,
     s2k |-> NoneV, created_at |-> NoneV, expiration |-> NoneV,
     subkeys |-> NoneV]

Unit == Ok("unit")
IsTrue(opt) == opt.some /\ opt.v

\* Each arm of the match in SecretKeyParamsBuilder::validate is an operator;
\* the variants before an arm are what the properties must tell from it.
\* variant: the bound compared with <= instead of <
ValidateRsaOffByOne(size) ==
    IF size <= 2048
    THEN Err("Keys with less than 2048bits are considered insecure")
    ELSE Unit

ValidateRsa(size) ==
    IF size < 2048
    THEN Err("Keys with less than 2048bits are considered insecure")
    ELSE Unit

\* variant: the EdDSA arm without its can_encrypt test
ValidateEdDSAUnchecked(b) == Unit

ValidateEdDSA(b) ==
    IF IsTrue(b.can_encrypt)
    THEN Err("EdDSA can only be used for signing keys")
    ELSE Unit

\* variant: Secp256k1 missing from the supported curves
ValidateECDSANoKoblitz(b, curve) ==
    IF IsTrue(b.can_encrypt)
    THEN Err("ECDSA can only be used for signing keys")
    ELSE IF curve \in {"P256", "P384", "P521"}
    THEN Unit
    ELSE Err("Curve is not supported for ECDSA")

\* the message of the last arm carries curve.name(); the name is left out
ValidateECDSA(b, curve) ==
    IF IsTrue(b.can_encrypt)
    THEN Err("ECDSA can only be used for signing keys")
    ELSE IF curve \in {"P256", "P384", "P521", "Secp256k1"}
    THEN Unit
    ELSE Err("Curve is not supported for ECDSA")

\* variant: the ECDH arm testing can_encrypt instead of can_sign
ValidateECDHChecksEncrypt(b) ==
    IF IsTrue(b.can_encrypt)
    THEN Err("ECDH can only be used for encryption keys")
    ELSE Unit

ValidateECDH(b) ==
    IF IsTrue(b.can_sign)
    THEN Err("ECDH can only be used for encryption keys")
    ELSE Unit

ValidateDsa(b) ==
    IF IsTrue(b.can_encrypt)
    THEN Err("DSA can only be used for signing keys")
    ELSE Unit

Validate(b) ==
    IF ~b.key_type.some THEN Unit
    ELSE LET kt == b.key_type.v IN
        CASE kt.tag = "Rsa" -> ValidateRsa(kt.bits)
          [] kt.tag = "EdDSALegacy" -> ValidateEdDSA(b)
          [] kt.tag = "ECDSA" -> ValidateECDSA(b, kt.curve)
          [] kt.tag = "ECDH" -> ValidateECDH(b)
          [] kt.tag = "Dsa" -> ValidateDsa(b)

\* chrono::SubsecRound::trunc_subsecs(0) on a time held in milliseconds.
TruncSubsecs(t) == t - (t % 1000)

\* The build() that derive_builder generates for SecretKeyParams: the
\* validate function first, then the fields, required ones failing when
\* unset and the others taking their default.
Build(b, now) ==
    LET checked == Validate(b) IN
    IF ~checked.ok
    THEN Err([kind |-> "ValidationError", msg |-> checked.err])
    ELSE IF ~b.key_type.some
    THEN Err([kind |-> "UninitializedField", msg |-> "key_type"])
    ELSE IF ~b.primary_user_id.some
    THEN Err([kind |-> "UninitializedField", msg |-> "primary_user_id"])
    ELSE Ok([key_type |-> b.key_type.v,
             can_sign |-> UnwrapOr(b.can_sign, FALSE),
             can_certify |-> UnwrapOr(b.can_certify, FALSE),
             can_encrypt |-> UnwrapOr(b.can_encrypt, FALSE),
             primary_user_id |-> b.primary_user_id.v,
             passphrase |-> UnwrapOr(b.passphrase, NoneV),
             s2k |-> UnwrapOr(b.s2k, NoneV),
             created_at |-> UnwrapOr(b.created_at, TruncSubsecs(now)),
             expiration |-> UnwrapOr(b.expiration, NoneV),
             subkeys |-> UnwrapOr(b.subkeys, <<>>)])

-----------------------------------------------------------------------------
(* SubkeyParamsBuilder *)

SubkeyBuilderDefault ==
    [key_type |-> NoneV, can_sign |-> NoneV, can_certify |-> NoneV,
     can_encrypt |-> NoneV, can_authenticate |-> NoneV, passphrase |-> NoneV,
     s2k |-> NoneV, created_at |-> NoneV, expiration |-> NoneV]

\* variant: an unset passphrase defaulting to the empty passphrase
SubkeyBuildEmptyPassphrase(sb, now) ==
    IF ~sb.key_type.some
    THEN Err([kind |-> "UninitializedField", msg |-> "key_type"])
    ELSE Ok([key_type |-> sb.key_type.v,
             can_sign |-> UnwrapOr(sb.can_sign, FALSE),
             can_certify |-> UnwrapOr(sb.can_certify, FALSE),
             can_encrypt |-> UnwrapOr(sb.can_encrypt, FALSE),
             can_authenticate |-> UnwrapOr(sb.can_authenticate, FALSE),
             passphrase |-> UnwrapOr(sb.passphrase, Some("")),
             s2k |-> UnwrapOr(sb.s2k, NoneV),
             created_at |-> UnwrapOr(sb.created_at, TruncSubsecs(now)),
             expiration |-> UnwrapOr(sb.expiration, NoneV)])

\* The build() that derive_builder generates for SubkeyParams: the struct
\* names no validate function, so only the required field is checked.
SubkeyBuild(sb, now) ==
    IF ~sb.key_type.some
    THEN Err([kind |-> "UninitializedField", msg |-> "key_type"])
    ELSE Ok([key_type |-> sb.key_type.v,
             can_sign |-> UnwrapOr(sb.can_sign, FALSE),
             can_certify |-> UnwrapOr(sb.can_certify, FALSE),
             can_encrypt |-> UnwrapOr(sb.can_encrypt, FALSE),
             can_authenticate |-> UnwrapOr(sb.can_authenticate, FALSE),
             passphrase |-> UnwrapOr(sb.passphrase, NoneV),
             s2k |-> UnwrapOr(sb.s2k, NoneV),
             created_at |-> UnwrapOr(sb.created_at, TruncSubsecs(now)),
             expiration |-> UnwrapOr(sb.expiration, NoneV)])

-----------------------------------------------------------------------------
(* Randomness.  A seeded source is a stream fixed by its seed; a draw is    *)
(* named by the stream and the position read.  thread_rng() is the          *)
(* operating system's entropy: what it yields is any value.                 *)

SeededRng(seed) == [src |-> "seeded", seed |-> seed, pos |-> 0]
ThreadRng(e) == [src |-> "thread", seed |-> e, pos |-> 0]
Draw(rng) == rng
Advance(rng) == [rng EXCEPT !.pos = @ + 1]

\* S2kParams::new_default(&mut rng): a fresh salt from the source.
S2kNewDefault(rng) == [salt |-> Draw(rng)]
CallerS2k == [salt |-> [src |-> "caller"]]

-----------------------------------------------------------------------------
(* KeyType::generate_with_rng and KeyType::generate.  The providers         *)
(* (rsa, ecdh, ecdsa, dsa ::generate_key), PlainSecretParams::encrypt and   *)
(* PublicKey::new return Results; whether one fails is an input, `fault`.   *)

NoFault == [key |-> -1, stage |-> "none"]
FaultAt(fault, key, stage) == fault.key = key /\ fault.stage = stage

\* eddsa::generate_key is the one provider called without `?`.
ProviderFallible(kt) == kt.tag # "EdDSALegacy"

\* variant: an empty passphrase treated as no passphrase
ProtectEmptyAsAbsent(plain, passphrase, s2k, encryptFails) ==
    IF passphrase.some /\ passphrase.v # ""
    THEN IF encryptFails
         THEN Err("ProtectionFailure")
         ELSE Ok([variant |-> "Encrypted",
                  cipher |-> [plain |-> plain, passphrase |-> passphrase.v,
                              s2k |-> s2k]])
    ELSE Ok([variant |-> "Plain", plain |-> plain])

\* the `match passphrase` of KeyType::generate_with_rng
Protect(plain, passphrase, s2k, encryptFails) ==
    IF passphrase.some
    THEN IF encryptFails
         THEN Err("ProtectionFailure")
         ELSE Ok([variant |-> "Encrypted",
                  cipher |-> [plain |-> plain, passphrase |-> passphrase.v,
                              s2k |-> s2k]])
    ELSE Ok([variant |-> "Plain", plain |-> plain])

\* What a provider returns when it succeeds: public parameters and plain
\* secret parameters of the key type, fixed by what the source yields.
ProviderGenerateKey(kt, rng) ==
    <<[public |-> kt, from |-> Draw(rng)], [secret |-> kt, from |-> Draw(rng)]>>

KeyTypeGenerateWithRng(kt, rng, passphrase, s2k, fault, key) ==
    IF ProviderFallible(kt) /\ FaultAt(fault, key, "generate")
    THEN Err("GenerationFailure")
    ELSE LET pair == ProviderGenerateKey(kt, rng)
             secret == Protect(pair[2], passphrase, s2k,
                               FaultAt(fault, key, "encrypt"))
         IN IF secret.ok THEN Ok(<<pair[1], secret.v>>) ELSE secret

\* variant: a failed step tried again until it succeeds
KeyTypeGenerateRetrying(kt, entropy, passphrase, s2k, fault, key) ==
    KeyTypeGenerateWithRng(kt, ThreadRng(entropy), passphrase, s2k, NoFault, key)

\* KeyType::generate: `let rng = thread_rng()`, whatever the caller holds.
KeyTypeGenerate(kt, entropy, passphrase, s2k, fault, key) ==
    KeyTypeGenerateWithRng(kt, ThreadRng(entropy), passphrase, s2k, fault, key)

\* The raw secret material a SecretParams value carries.
RawOf(secret_params) ==
    IF secret_params.variant = "Plain"
    THEN secret_params.plain
    ELSE secret_params.cipher.plain

-----------------------------------------------------------------------------
(* SecretKeyParams::generate_with_rng *)

\* one entry of the log of provider calls (rsa/ecdh/... ::generate_key)
ProviderCall(key, p, rng) ==
    [key |-> key, key_type |-> p.key_type, can_sign |-> p.can_sign,
     can_encrypt |-> p.can_encrypt, rng |-> rng.src]

\* variant: set_encrypt_storage left out
PrimaryKeyFlagsNoStorage(p) ==
    [certify |-> p.can_certify, encrypt_comms |-> p.can_encrypt,
     encrypt_storage |-> FALSE, sign |-> p.can_sign,
     authentication |-> FALSE]

PrimaryKeyFlags(p) ==
    [certify |-> p.can_certify, encrypt_comms |-> p.can_encrypt,
     encrypt_storage |-> p.can_encrypt, sign |-> p.can_sign,
     authentication |-> FALSE]

SubkeyKeyFlags(sk) ==
    [certify |-> sk.can_certify, encrypt_comms |-> sk.can_encrypt,
     encrypt_storage |-> sk.can_encrypt, sign |-> sk.can_sign,
     authentication |-> sk.can_authenticate]

\* std::time::Duration: whole seconds and the nanoseconds beyond them
Duration(secs, nanos) == [secs |-> secs, nanos |-> nanos]
as_secs(d) == d.secs

\* `as u16`: an integer cast keeps the low 16 bits
as_u16(n) == n % 65536

\* expiration.map(|v| v.as_secs() as u16)
ExpirationArg(expiration) ==
    IF expiration.some THEN Some(as_u16(as_secs(expiration.v))) ELSE NoneV

\* packet::PublicKey::new / packet::PublicSubkey::new with the secret part
Envelope(p, generated) ==
    [algorithm |-> to_alg(p.key_type), created_at |-> p.created_at,
     expiration |-> ExpirationArg(p.expiration),
     public_params |-> generated[1], secret_params |-> generated[2]]

\* variant: each item put at the front
CollectFront(done, item) == <<item>> \o done

\* collect::<Result<Vec<_>>>() takes the items in the iterator's order
Collect(done, item) == Append(done, item)

\* The closure mapped over self.subkeys and collected into a Result: the
\* subkeys in order, stopping at the first Err.
RECURSIVE GenSubkeys(_, _, _, _, _, _, _)
GenSubkeys(subkeys, i, rng, done, calls, fault, entropy) ==
    IF i > Len(subkeys)
    THEN [res |-> Ok(done), calls |-> calls, rng |-> rng]
    ELSE LET subkey == subkeys[i]
             s2k == IF subkey.s2k.some THEN subkey.s2k.v ELSE S2kNewDefault(rng)
             rng1 == IF subkey.s2k.some THEN rng ELSE Advance(rng)
             generated == KeyTypeGenerate(subkey.key_type, entropy[i],
                                          subkey.passphrase, s2k, fault, i)
             calls1 == Append(calls,
                              ProviderCall(i, subkey, ThreadRng(entropy[i])))
         IN IF ~generated.ok
            THEN [res |-> generated, calls |-> calls1, rng |-> rng1]
            ELSE IF FaultAt(fault, i, "envelope")
            THEN [res |-> Err("EnvelopeFailure"), calls |-> calls1, rng |-> rng1]
            ELSE GenSubkeys(subkeys, i + 1, rng1,
                            Collect(done, [key |-> Envelope(subkey, generated.v),
                                           keyflags |-> SubkeyKeyFlags(subkey)]),
                            calls1, fault, entropy)

GenerateWithRng(p, rng0, fault, entropy) ==
    LET s2k == IF p.s2k.some THEN p.s2k.v ELSE S2kNewDefault(rng0)
        rng1 == IF p.s2k.some THEN rng0 ELSE Advance(rng0)
        generated == KeyTypeGenerateWithRng(p.key_type, rng1, p.passphrase,
                                            s2k, fault, 0)
        rng2 == Advance(rng1)
        calls == <<ProviderCall(0, p, rng1)>>
    IN IF ~generated.ok
       THEN [res |-> generated, calls |-> calls]
       ELSE IF FaultAt(fault, 0, "envelope")
       THEN [res |-> Err("EnvelopeFailure"), calls |-> calls]
       ELSE LET subs == GenSubkeys(p.subkeys, 1, rng2, <<>>, calls, fault,
                                   entropy)
            IN IF ~subs.res.ok
               THEN [res |-> subs.res, calls |-> subs.calls]
               ELSE [res |-> Ok([primary_key |-> Envelope(p, generated.v),
                                 keyflags |-> PrimaryKeyFlags(p),
                                 primary_user_id |-> p.primary_user_id,
                                 subkeys |-> subs.res.v]),
                     calls |-> subs.calls]

-----------------------------------------------------------------------------
(* Bounds and input sets *)

MaxSubkeys == 2

\* seeds given to a seeded source, and values the system's entropy yields
Seeds == {0, 1}
Entropy == {0, 1}

\* what chrono::Utc::now() may read, in milliseconds
Clock == {7250}

UserIds == {"Me <me@mail.com>"}
PassphraseValues == {NoneV, Some(""), Some("hello")}

\* key types given to the primary builder when keys are generated
GenKeyTypes == {Rsa(1024), Rsa(2048), EdDSALegacy}

\* SubkeyParamsBuilder::default() with setters applied, as the callers of
\* the file write them
SubkeyBuilders ==
    {[SubkeyBuilderDefault EXCEPT !.key_type = Some(Rsa(2048)),
                                  !.passphrase = Some(Some("hello")),
                                  !.can_encrypt = Some(TRUE)],
     [SubkeyBuilderDefault EXCEPT !.key_type = Some(ECDH("Curve25519")),
                                  !.can_encrypt = Some(TRUE),
                                  !.passphrase = Some(NoneV)],
     [SubkeyBuilderDefault EXCEPT !.key_type = Some(Rsa(1024)),
                                  !.can_sign = Some(TRUE),
                                  !.can_authenticate = Some(TRUE),
                                  !.passphrase = Some(Some("")),
                                  !.created_at = Some(3000)],
     [SubkeyBuilderDefault EXCEPT !.key_type = Some(ECDH("Curve25519")),
                                  !.can_sign = Some(TRUE),
                                  !.can_certify = Some(TRUE),
                                  !.s2k = Some(Some(CallerS2k))]}

\* Creation times a caller sets, in milliseconds: a whole second, and one
\* with half a second beyond it
CreatedAt == {2000, 2500}

\* Expirations a caller sets: none, an hour, ten and a half seconds, the
\* first duration past u16::MAX seconds, a year
Expirations ==
    {NoneV, Some(Duration(3600, 0)), Some(Duration(10, 500000000)),
     Some(Duration(65536, 0)), Some(Duration(31536000, 0))}

\* Subkey builders with their times left unset and set
SubkeyTimeBuilders ==
    {[SubkeyBuilderDefault EXCEPT !.key_type = Some(ECDH("Curve25519")),
                                  !.can_encrypt = Some(TRUE),
                                  !.passphrase = Some(NoneV)],
     [SubkeyBuilderDefault EXCEPT !.key_type = Some(ECDH("Curve25519")),
                                  !.can_encrypt = Some(TRUE),
                                  !.passphrase = Some(NoneV),
                                  !.created_at = Some(3000),
                                  !.expiration = Some(Some(Duration(3600, 0)))],
     [SubkeyBuilderDefault EXCEPT !.key_type = Some(ECDH("Curve25519")),
                                  !.can_encrypt = Some(TRUE),
                                  !.passphrase = Some(NoneV),
                                  !.created_at = Some(3500),
                                  !.expiration =
                                      Some(Some(Duration(31536000, 0)))]}

Stages == {"generate", "encrypt", "envelope"}
Faults(n) == {NoFault} \cup [key : 0..n, stage : Stages]

-----------------------------------------------------------------------------
(* Actions *)

Init ==
    /\ builder = BuilderDefault
    /\ phase = "building"
    /\ params = NoneV
    /\ run = NoneV
    /\ run2 = NoneV
    /\ declared = <<>>
    /\ sub_builders = <<>>
    /\ seen = {}

\* the setters derive_builder generates: each stores Some(value)
key_type(value) ==
    /\ phase = "building"
    /\ builder' = [builder EXCEPT !.key_type = Some(value)]
    /\ seen' = seen \cup {Validate(builder').ok}
    /\ UNCHANGED <<phase, params, run, run2, declared, sub_builders>>

can_sign(value) ==
    /\ phase = "building"
    /\ builder' = [builder EXCEPT !.can_sign = Some(value)]
    /\ seen' = seen \cup {Validate(builder').ok}
    /\ UNCHANGED <<phase, params, run, run2, declared, sub_builders>>

can_certify(value) ==
    /\ phase = "building"
    /\ builder' = [builder EXCEPT !.can_certify = Some(value)]
    /\ seen' = seen \cup {Validate(builder').ok}
    /\ UNCHANGED <<phase, params, run, run2, declared, sub_builders>>

\* variant: a setter that validates at once and rejects the builder
can_encrypt_validating(value) ==
    /\ phase = "building"
    /\ builder' = [builder EXCEPT !.can_encrypt = Some(value)]
    /\ seen' = seen \cup {Validate(builder').ok}
    /\ IF Validate(builder').ok
       THEN UNCHANGED <<phase, params>>
       ELSE /\ phase' = "rejected"
            /\ params' = Err([kind |-> "ValidationError",
                              msg |-> Validate(builder').err])
    /\ UNCHANGED <<run, run2, declared, sub_builders>>

can_encrypt(value) ==
    /\ phase = "building"
    /\ builder' = [builder EXCEPT !.can_encrypt = Some(value)]
    /\ seen' = seen \cup {Validate(builder').ok}
    /\ UNCHANGED <<phase, params, run, run2, declared, sub_builders>>

primary_user_id(value) ==
    /\ phase = "building"
    /\ builder' = [builder EXCEPT !.primary_user_id = Some(value)]
    /\ seen' = seen \cup {Validate(builder').ok}
    /\ UNCHANGED <<phase, params, run, run2, declared, sub_builders>>

passphrase(value) ==
    /\ phase = "building"
    /\ builder' = [builder EXCEPT !.passphrase = Some(value)]
    /\ seen' = seen \cup {Validate(builder').ok}
    /\ UNCHANGED <<phase, params, run, run2, declared, sub_builders>>

s2k(value) ==
    /\ phase = "building"
    /\ builder' = [builder EXCEPT !.s2k = Some(value)]
    /\ seen' = seen \cup {Validate(builder').ok}
    /\ UNCHANGED <<phase, params, run, run2, declared, sub_builders>>

created_at(value) ==
    /\ phase = "building"
    /\ builder' = [builder EXCEPT !.created_at = Some(value)]
    /\ seen' = seen \cup {Validate(builder').ok}
    /\ UNCHANGED <<phase, params, run, run2, declared, sub_builders>>

expiration(value) ==
    /\ phase = "building"
    /\ builder' = [builder EXCEPT !.expiration = Some(value)]
    /\ seen' = seen \cup {Validate(builder').ok}
    /\ UNCHANGED <<phase, params, run, run2, declared, sub_builders>>

\* SecretKeyParamsBuilder::subkey: push, or start the list
subkey(value) ==
    /\ phase = "building"
    /\ Len(UnwrapOr(builder.subkeys, <<>>)) < MaxSubkeys
    /\ builder' = [builder EXCEPT !.subkeys =
                       IF @.some THEN Some(Append(@.v, value))
                       ELSE Some(<<value>>)]
    /\ declared' = Append(declared, value)
    /\ UNCHANGED <<phase, params, run, run2, seen>>

\* .subkey(SubkeyParamsBuilder::default()...build().unwrap()), as the callers
\* of the file declare a subkey
subkey_build(sb, now) ==
    /\ SubkeyBuild(sb, now).ok
    /\ subkey(SubkeyBuild(sb, now).v)
    /\ sub_builders' = Append(sub_builders, sb)

build(now) ==
    /\ phase = "building"
    /\ params' = Build(builder, now)
    /\ phase' = IF params'.ok THEN "built" ELSE "rejected"
    /\ UNCHANGED <<builder, run, run2, declared, sub_builders, seen>>

Outcome(via, rng0, fault, entropy) ==
    LET out == GenerateWithRng(params.v, rng0, fault, entropy) IN
    [via |-> via, rng |-> rng0, fault |-> fault, res |-> out.res,
     calls |-> out.calls]

\* SecretKeyParams::generate_with_rng(rng) with a seeded source
generate_with_rng(seed, fault, entropy) ==
    /\ phase = "built"
    /\ run' = Outcome("generate_with_rng", SeededRng(seed), fault, entropy)
    /\ phase' = "generated"
    /\ UNCHANGED <<builder, params, run2, declared, sub_builders, seen>>

\* SecretKeyParams::generate(): generate_with_rng(thread_rng())
generate(e, fault, entropy) ==
    /\ phase = "built"
    /\ run' = Outcome("generate", ThreadRng(e), fault, entropy)
    /\ phase' = "generated"
    /\ UNCHANGED <<builder, params, run2, declared, sub_builders, seen>>

\* build() on the same builder once more, and generate_with_rng on the
\* identical parameters
generate_again(seed, fault, entropy) ==
    /\ phase = "generated"
    /\ run2' = Outcome("generate_with_rng", SeededRng(seed), fault, entropy)
    /\ phase' = "generated2"
    /\ UNCHANGED <<builder, params, run, declared, sub_builders, seen>>

\* the subkeys of the built parameters (none before a successful build)
Subkeys == IF phase \in {"built", "generated"} THEN params.v.subkeys ELSE <<>>

\* One generate call on what was built.  What the sources yield does not
\* bear on a single call, so one seed and one entropy value are tried;
\* any step of the call may fail.
Next ==
    \/ \E v \in GenKeyTypes : key_type(v)
    \/ \E v \in {TRUE} : can_sign(v)
    \/ \E v \in {TRUE} : can_certify(v)
    \/ \E v \in {TRUE} : can_encrypt(v)
    \/ \E v \in UserIds : primary_user_id(v)
    \/ \E v \in PassphraseValues : passphrase(v)
    \/ \E sb \in SubkeyBuilders, now \in Clock : subkey_build(sb, now)
    \/ \E now \in Clock : build(now)
    \/ \E seed \in {0}, fault \in Faults(Len(Subkeys)),
          entropy \in [1..Len(Subkeys) -> {0}] :
            generate_with_rng(seed, fault, entropy)
    \/ \E e \in {0}, fault \in Faults(Len(Subkeys)),
          entropy \in [1..Len(Subkeys) -> {0}] :
            generate(e, fault, entropy)

Spec == Init /\ [][Next]_vars

\* Building alone, over every key type and every value of the intents.
NextBuild ==
    \/ \E v \in KeyType : key_type(v)
    \/ \E v \in BOOLEAN : can_sign(v)
    \/ \E v \in BOOLEAN : can_certify(v)
    \/ \E v \in BOOLEAN : can_encrypt(v)
    \/ \E v \in UserIds : primary_user_id(v)
    \/ \E now \in Clock : build(now)

SpecBuild == Init /\ [][NextBuild]_vars

\* Two generate_with_rng calls on the same parameters, over the seeds and
\* the entropy values, no step failing.
NextRepeat ==
    \/ \E v \in {Rsa(2048), EdDSALegacy} : key_type(v)
    \/ \E v \in UserIds : primary_user_id(v)
    \/ \E v \in {Some("hello")} : passphrase(v)
    \/ \E v \in {Some(CallerS2k)} : s2k(v)
    \/ \E v \in {2000} : created_at(v)
    \/ \E sb \in SubkeyBuilders, now \in Clock : subkey_build(sb, now)
    \/ \E now \in Clock : build(now)
    \/ \E seed \in Seeds, entropy \in [1..Len(Subkeys) -> Entropy] :
            generate_with_rng(seed, NoFault, entropy)
    \/ \E seed \in Seeds, entropy \in [1..Len(Subkeys) -> Entropy] :
            generate_again(seed, NoFault, entropy)

SpecRepeat == Init /\ [][NextRepeat]_vars

\* The times of the records and of the keys made from them: creation time
\* and expiration left unset and set, one generate call, no step failing.
NextTime ==
    \/ \E v \in {Rsa(2048)} : key_type(v)
    \/ \E v \in UserIds : primary_user_id(v)
    \/ \E v \in CreatedAt : created_at(v)
    \/ \E v \in Expirations : expiration(v)
    \/ \E sb \in SubkeyTimeBuilders, now \in Clock : subkey_build(sb, now)
    \/ \E now \in Clock : build(now)
    \/ \E seed \in {0}, entropy \in [1..Len(Subkeys) -> {0}] :
            generate_with_rng(seed, NoFault, entropy)

SpecTime == Init /\ [][NextTime]_vars

-----------------------------------------------------------------------------
(* Properties *)

Generated == phase \in {"generated", "generated2"}
Succeeded == Generated /\ run.res.ok

\* The legality rules for a key type and its capability intents.
LegalCurves == {"P256", "P384", "P521", "Secp256k1"}
Legal(kt, sign, encrypt) ==
    /\ kt.tag = "Rsa" => kt.bits >= 2048
    /\ kt.tag \in {"EdDSALegacy", "ECDSA", "Dsa"} => ~encrypt
    /\ kt.tag = "ECDH" => ~sign
    /\ kt.tag = "ECDSA" => kt.curve \in LegalCurves

\* C1: the key-generation provider is called for a key, primary or subkey,
\* only if that key's type and capability intents are legal.
C1_ProviderCalledOnlyForLegalKeys ==
    Generated =>
        \A i \in 1..Len(run.calls) :
            Legal(run.calls[i].key_type, run.calls[i].can_sign,
                  run.calls[i].can_encrypt)

\* public and raw secret material of the primary key and of every subkey
Material(key) ==
    [primary |-> <<key.primary_key.public_params,
                   RawOf(key.primary_key.secret_params)>>,
     subkeys |-> [i \in 1..Len(key.subkeys) |->
                    <<key.subkeys[i].key.public_params,
                      RawOf(key.subkeys[i].key.secret_params)>>]]

\* C2: two generate_with_rng calls on identical parameters with sources
\* seeded identically give identical public and raw secret material, for
\* the primary key and for every subkey.
C2_SameSeedSameMaterial ==
    (/\ phase = "generated2"
     /\ run.rng = run2.rng
     /\ run.res.ok
     /\ run2.res.ok) => Material(run.res.v) = Material(run2.res.v)

\* the raw material the provider generated along with public parameters
RawFor(public_params) ==
    ProviderGenerateKey(public_params.public, public_params.from)[2]

ProtectedIffPassphrase(key, pass) ==
    /\ key.secret_params.variant = "Encrypted" <=> pass.some
    /\ key.secret_params.variant = "Plain" <=> ~pass.some
    /\ ~pass.some => key.secret_params.plain = RawFor(key.public_params)

\* C3: in a successful result the secret material of the primary key and of
\* each subkey is Encrypted iff that key's own passphrase is present (the
\* empty passphrase included) and Plain, holding the raw generated
\* material, iff it is absent.
C3_ProtectedIffOwnPassphrase ==
    Succeeded =>
        /\ ProtectedIffPassphrase(run.res.v.primary_key,
                                  UnwrapOr(builder.passphrase, NoneV))
        /\ \A i \in 1..Len(declared) :
               ProtectedIffPassphrase(run.res.v.subkeys[i].key,
                                      declared[i].passphrase)

\* a primary under the empty passphrase with a subkey that has none, and a
\* second subkey under a passphrase of its own
C3_Witness ==
    /\ Succeeded
    /\ builder.passphrase = Some(Some(""))
    /\ run.res.v.primary_key.secret_params.variant = "Encrypted"
    /\ Len(declared) = 2
    /\ ~declared[1].passphrase.some
    /\ run.res.v.subkeys[1].key.secret_params.variant = "Plain"
    /\ declared[2].passphrase = Some("hello")
    /\ run.res.v.subkeys[2].key.secret_params.variant = "Encrypted"

-----------------------------------------------------------------------------
(* Properties of build *)

Finalized == phase # "building"
Rejected == Finalized /\ ~params.ok
Invalid == Rejected /\ params.err.kind = "ValidationError"
TypeIs(tags) == builder.key_type.some /\ builder.key_type.v.tag \in tags
IdentitySet == builder.primary_user_id.some

\* C4: with the primary identity set, building Rsa(bits) fails validation
\* when bits < 2048 and succeeds when bits >= 2048, whatever the intents.
C4_RsaBuildsIffAtLeast2048 ==
    (Finalized /\ TypeIs({"Rsa"}) /\ IdentitySet) =>
        IF builder.key_type.v.bits < 2048 THEN Invalid ELSE params.ok

C4_Witness ==
    /\ Invalid
    /\ builder.key_type = Some(Rsa(2047))
    /\ IdentitySet
    /\ builder.can_sign = Some(TRUE)
    /\ builder.can_encrypt = Some(FALSE)

\* C5 as stated: EdDSALegacy or ECDSA(_) fails validation whenever
\* can-encrypt is true and succeeds whenever it is false or unset, for
\* every curve argument.
C5_SigningOnlyBuildsIffNoEncrypt ==
    (Finalized /\ TypeIs({"EdDSALegacy", "ECDSA"}) /\ IdentitySet) =>
        IF IsTrue(builder.can_encrypt) THEN Invalid ELSE params.ok

\* C5 as amended: EdDSALegacy or ECDSA(_) fails validation whenever
\* can-encrypt is true; with can-encrypt false or unset and the identity
\* set it succeeds for EdDSALegacy and for ECDSA on P-256, P-384, P-521 or
\* secp256k1, and fails validation for ECDSA on any other curve.
C5_SigningOnlyBuildsIffNoEncryptOnLegalCurve ==
    (Finalized /\ TypeIs({"EdDSALegacy", "ECDSA"})) =>
        /\ IsTrue(builder.can_encrypt) => Invalid
        /\ (~IsTrue(builder.can_encrypt) /\ IdentitySet) =>
              IF TypeIs({"ECDSA"}) /\ builder.key_type.v.curve \notin LegalCurves
              THEN Invalid
              ELSE params.ok

C5_Witness ==
    /\ Finalized
    /\ builder.key_type = Some(EdDSALegacy)
    /\ builder.can_encrypt = Some(FALSE)
    /\ builder.can_sign = Some(TRUE)
    /\ params.ok

\* C6: ECDH(_) with can-sign true fails validation and Dsa(_) with
\* can-encrypt true fails validation, for every curve, size class and value
\* of the other intents; can-encrypt on ECDH and can-sign on Dsa alone do not
\* make the build fail.
C6_EcdhNeverSignsDsaNeverEncrypts ==
    Finalized =>
        /\ (TypeIs({"ECDH"}) /\ IsTrue(builder.can_sign)) => Invalid
        /\ (TypeIs({"Dsa"}) /\ IsTrue(builder.can_encrypt)) => Invalid
        /\ (TypeIs({"ECDH"}) /\ ~IsTrue(builder.can_sign) /\ IdentitySet)
              => params.ok
        /\ (TypeIs({"Dsa"}) /\ ~IsTrue(builder.can_encrypt) /\ IdentitySet)
              => params.ok

C6_Witness ==
    /\ Finalized
    /\ TypeIs({"Dsa"})
    /\ builder.can_sign = Some(TRUE)
    /\ ~IsTrue(builder.can_encrypt)
    /\ params.ok

CurveRejected ==
    Invalid /\ params.err.msg = "Curve is not supported for ECDSA"

\* C7: ECDSA(curve) fails validation for every curve outside {P-256, P-384,
\* P-521, secp256k1} and is not rejected on curve grounds inside the set;
\* ECDH(curve) and EdDSALegacy are never rejected on the curve.
C7_OnlyEcdsaRestrictsCurves ==
    Finalized =>
        /\ (TypeIs({"ECDSA"}) /\ builder.key_type.v.curve \notin LegalCurves)
              => Invalid
        /\ (TypeIs({"ECDSA"}) /\ builder.key_type.v.curve \in LegalCurves)
              => /\ ~CurveRejected
                 /\ (~IsTrue(builder.can_encrypt) /\ IdentitySet) => params.ok
        /\ TypeIs({"ECDH", "EdDSALegacy"}) => ~CurveRejected
        /\ (TypeIs({"ECDH"}) /\ ~IsTrue(builder.can_sign) /\ IdentitySet)
              => params.ok

C7_Witness ==
    /\ CurveRejected
    /\ builder.key_type = Some(ECDSA("Curve25519"))
    /\ ~IsTrue(builder.can_encrypt)
    /\ IdentitySet

-----------------------------------------------------------------------------
(* Properties of generate *)

\* C8: a successful generate returns as many subkeys as subkey() was called
\* with, the i-th made from the i-th declared SubkeyParams: its key type,
\* flags and timestamp.
C8_SubkeysInDeclaredOrder ==
    Succeeded =>
        /\ Len(run.res.v.subkeys) = Len(declared)
        /\ \A i \in 1..Len(declared) :
              LET got == run.res.v.subkeys[i]
                  want == declared[i]
              IN /\ got.key.public_params.public = want.key_type
                 /\ got.key.algorithm = want.key_type.tag
                 /\ got.key.created_at = want.created_at
                 /\ got.keyflags.sign = want.can_sign
                 /\ got.keyflags.certify = want.can_certify
                 /\ got.keyflags.encrypt_comms = want.can_encrypt
                 /\ got.keyflags.authentication = want.can_authenticate

C8_Witness ==
    /\ Succeeded
    /\ Len(declared) = 2
    /\ declared[1].key_type = ECDH("Curve25519")
    /\ declared[2].key_type = Rsa(2048)
    /\ run.res.v.subkeys[2].key.algorithm = "Rsa"

Intent(opt) == UnwrapOr(opt, FALSE)

\* C9: in a successful result the flags are the declared intents: certify,
\* sign, and both encrypt flags from can-encrypt, for the primary and each
\* subkey; a subkey's authenticate flag is its can-authenticate and the
\* primary's is never set.
C9_FlagsAreDeclaredIntents ==
    Succeeded =>
        /\ LET flags == run.res.v.keyflags
           IN /\ flags.certify = Intent(builder.can_certify)
              /\ flags.sign = Intent(builder.can_sign)
              /\ flags.encrypt_comms = Intent(builder.can_encrypt)
              /\ flags.encrypt_storage = Intent(builder.can_encrypt)
              /\ flags.authentication = FALSE
        /\ \A i \in 1..Len(run.res.v.subkeys) :
              LET flags == run.res.v.subkeys[i].keyflags
              IN /\ flags.certify = declared[i].can_certify
                 /\ flags.sign = declared[i].can_sign
                 /\ flags.encrypt_comms = declared[i].can_encrypt
                 /\ flags.encrypt_storage = declared[i].can_encrypt
                 /\ flags.authentication = declared[i].can_authenticate

C9_Witness ==
    /\ Succeeded
    /\ builder.can_encrypt = Some(TRUE)
    /\ builder.can_certify = Some(TRUE)
    /\ ~builder.can_sign.some
    /\ run.res.v.keyflags.encrypt_storage
    /\ Len(declared) >= 1
    /\ declared[1].can_authenticate
    /\ run.res.v.subkeys[1].keyflags.authentication

\* the parameters of key k of the call: 0 the primary, i the i-th subkey
KeyParams(k) == IF k = 0 THEN params.v ELSE params.v.subkeys[k]

\* the injected failure falls on a step the call executes
FaultHits ==
    /\ run.fault # NoFault
    /\ run.fault.stage = "generate" =>
          KeyParams(run.fault.key).key_type.tag # "EdDSALegacy"
    /\ run.fault.stage = "encrypt" => KeyParams(run.fault.key).passphrase.some

ErrorOf(stage) ==
    CASE stage = "generate" -> "GenerationFailure"
      [] stage = "encrypt" -> "ProtectionFailure"
      [] stage = "envelope" -> "EnvelopeFailure"

\* C10: when key generation, secret protection or envelope construction
\* fails for the primary or for a subkey, generate returns that error and
\* no key; the provider was called once for each key up to the failing one
\* and for none after it.
C10_AllOrNothing ==
    Generated =>
        /\ \A j \in 1..Len(run.calls) : run.calls[j].key = j - 1
        /\ FaultHits =>
              /\ ~run.res.ok
              /\ run.res.err = ErrorOf(run.fault.stage)
              /\ Len(run.calls) = run.fault.key + 1

C10_Witness ==
    /\ Generated
    /\ Len(declared) = 2
    /\ run.fault = [key |-> 1, stage |-> "encrypt"]
    /\ FaultHits
    /\ ~run.res.ok
    /\ Len(run.calls) = 2

-----------------------------------------------------------------------------
\* a builder on which neither a passphrase nor "no passphrase" was set
Undecided(b) == ~b.passphrase.some

\* C11, as stated: finalizing a primary or subkey builder on which no
\* passphrase decision was made fails: no primary build of an undecided
\* builder succeeds, and no declared subkey was built from an undecided
\* builder.
C11_UndecidedPassphraseFailsBuild ==
    /\ Finalized /\ Undecided(builder) => ~params.ok
    /\ \A i \in 1..Len(sub_builders) : ~Undecided(sub_builders[i])

\* C11, amended: the passphrase field has a default.  A primary builder
\* with no passphrase decision builds whenever its other fields allow it,
\* a subkey builder with none builds too, and either record then carries
\* "no passphrase", exactly as if that had been set.
C11_UndecidedPassphraseDefaultsToNone ==
    /\ Finalized /\ Undecided(builder)
          => /\ params.ok <=> /\ builder.key_type.some
                              /\ builder.primary_user_id.some
                              /\ Validate(builder).ok
             /\ params.ok => params.v.passphrase = NoneV
    /\ \A i \in 1..Len(sub_builders) :
          Undecided(sub_builders[i]) => declared[i].passphrase = NoneV

C11_Witness ==
    /\ phase = "built"
    /\ Undecided(builder)
    /\ params.v.passphrase = NoneV
    /\ \E i \in 1..Len(sub_builders) :
          Undecided(sub_builders[i]) /\ declared[i].passphrase = NoneV

-----------------------------------------------------------------------------
\* a time in milliseconds with nothing beyond the whole second
WholeSecond(t) == t % 1000 = 0

\* C12: the creation time of every built parameter record (primary and
\* subkey) and of every generated primary and subkey key has a zero
\* sub-second part, whether it was defaulted or set by the caller.
C12_CreatedAtHasNoSubsecond ==
    /\ \A i \in 1..Len(declared) : WholeSecond(declared[i].created_at)
    /\ Finalized /\ params.ok => WholeSecond(params.v.created_at)
    /\ Succeeded
          => /\ WholeSecond(run.res.v.primary_key.created_at)
             /\ \A i \in 1..Len(run.res.v.subkeys) :
                   WholeSecond(run.res.v.subkeys[i].key.created_at)

\* the expiration the claim expects of a key: the declared whole seconds
DeclaredSeconds(opt) ==
    IF opt.some THEN Some(opt.v.secs) ELSE NoneV

\* C14: in a successful result the expiration of the primary key and of
\* every subkey is the declared duration in whole seconds, and is absent
\* exactly when none was declared; no duration is reduced modulo 2^16.
C14_ExpirationIsDeclaredSeconds ==
    Succeeded
      => /\ run.res.v.primary_key.expiration
               = DeclaredSeconds(params.v.expiration)
         /\ \A i \in 1..Len(run.res.v.subkeys) :
               run.res.v.subkeys[i].key.expiration
                   = DeclaredSeconds(declared[i].expiration)

-----------------------------------------------------------------------------
\* what the fields of a builder must be for its build to succeed
Buildable(b) ==
    /\ b.key_type.some
    /\ b.primary_user_id.some
    /\ Legal(b.key_type.v, IsTrue(b.can_sign), IsTrue(b.can_encrypt))

\* C13: validation happens only at finalize and on the field values of that
\* moment.  A build succeeds exactly when the fields the builder then holds
\* are buildable, whatever calls led to them and whatever verdicts earlier
\* field values would have had; and no setter call finalizes or rejects
\* the builder.
C13_ValidationOnlyAtBuildOnFinalFields ==
    /\ [](Finalized => (params.ok <=> Buildable(builder)))
    /\ [][builder' # builder => phase' = "building" /\ params' = params]_vars

\* an illegal combination was set, then overwritten, and the build succeeded
C13_Witness ==
    /\ phase = "built"
    /\ seen = {TRUE, FALSE}
    /\ IsTrue(builder.can_sign)
    /\ builder.can_encrypt = Some(FALSE)

====
